---------------------------- MODULE Spec2Model ----------------------------
(***************************************************************************)
(* Model of pkg/prommetrics/prommetrics.go (KEDA): the Prometheus metric   *)
(* vectors registered by the package and the functions that record into    *)
(* them.                                                                   *)
(*                                                                         *)
(* A metric vector is a partial function from label sets (records) to      *)
(* numbers: a label set is in the DOMAIN exactly when the vector holds a   *)
(* data point (a child metric) for it.  The registry maps the fully        *)
(* qualified name of each vector to that partial function.                 *)
(*                                                                         *)
(* Two specifications:                                                     *)
(*   Spec      every exported function is one atomic step (one caller);    *)
(*   ConcSpec  several workers call the functions; each statement of the   *)
(*             form vec.With(labels).Inc()/Set(v) is one atomic step, so   *)
(*             a failing RecordScalerError is three steps (lines 256-258   *)
(*             or 268-270) that interleave with the other workers.         *)
(***************************************************************************)
EXTENDS Integers, Sequences, FiniteSets, TLC

VARIABLES
    registry,      \* metrics.Registry: vector name -> (label set -> value)
    pc,            \* per worker: Idle, or the RecordScalerError call it is inside
    last,          \* history: the most recent call (function and arguments);
                   \* kept by Spec only, where calls do not overlap
    callsLeft,     \* bound of the model: calls that may still be made
    scalerErrCalls,\* history: <<vector, labels>> -> RecordScalerError calls with err # nil
    objErrCalls,   \* history: <<vector, labels>> -> direct RecordScaledObjectError calls with err # nil
    written,       \* history: <<vector, labels>> -> values the calls wrote to that point
    overlapped     \* history: some call was made while another was in progress

vars == <<registry, pc, last, callsLeft, scalerErrCalls, objErrCalls, written, overlapped>>

---------------------------------------------------------------------------
(* Bounds of the model *)

MaxCalls == 3

MaxConcCalls == 3

---------------------------------------------------------------------------
(* Constants of the package (lines 32-39) *)

ClusterTriggerAuthenticationResource == "cluster_trigger_authentication"
TriggerAuthenticationResource == "trigger_authentication"
ScaledObjectResource == "scaled_object"
ScaledJobResource == "scaled_job"

(* Fully qualified vector names: Namespace_Subsystem_Name of each Opts *)
buildInfo == "keda_build_info"
scalerErrorsTotal == "keda_scaler_errors_total"
scaledObjectScalerMetricsValue == "keda_scaler_scaledobject_metrics_value"
scaledJobScalerMetricsValue == "keda_scaler_scaledjob_metrics_value"
scaledObjectScalerMetricsLatency == "keda_scaler_scaledobject_metrics_latency"
scaledJobScalerMetricsLatency == "keda_scaler_scaledjob_metrics_latency"
scaledObjectScalerActive == "keda_scaler_scaledobject_active"
scaledJobScalerActive == "keda_scaler_scaledjob_active"
scaledObjectScalerErrors == "keda_scaler_scaledobject_errors"
scaledJobScalerErrors == "keda_scaler_scaledjob_errors"
scaledObjectErrors == "keda_scaled_object_errors"
scaledJobErrors == "keda_scaled_job_errors"
triggerTotalsGaugeVec == "keda_trigger_totals"
crdTotalsGaugeVec == "keda_resource_totals"
internalLoopLatency == "keda_internal_scale_loop_latency"

VecNames ==
    { buildInfo, scalerErrorsTotal,
      scaledObjectScalerMetricsValue, scaledJobScalerMetricsValue,
      scaledObjectScalerMetricsLatency, scaledJobScalerMetricsLatency,
      scaledObjectScalerActive, scaledJobScalerActive,
      scaledObjectScalerErrors, scaledJobScalerErrors,
      scaledObjectErrors, scaledJobErrors,
      triggerTotalsGaugeVec, crdTotalsGaugeVec, internalLoopLatency }

CounterVecs ==
    { scalerErrorsTotal, scaledObjectScalerErrors, scaledJobScalerErrors,
      scaledObjectErrors, scaledJobErrors }

---------------------------------------------------------------------------
(* Inputs of the calls *)

Namespaces == {"ns1"}
ResourceNames == {"obj1"}
ScalerNames == {"scaler-a"}
ScalerIndexes == {0, 12}
MetricNames == {"queueLength"}
Values == {42, 7}
ResourceTypes == {ScaledObjectResource, ScaledJobResource, TriggerAuthenticationResource}
KnownResourceTypes == {ScaledObjectResource, ScaledJobResource}
NilErr == "nil"
Errs == {NilErr, "connection refused"}
TriggerTypes == {"", "kafka", "cron"}
CRDTypes == {"Foo"}
CRDNamespaces == {"", "default"}
Workers == {"w1", "w2"}

Idle == [at |-> "idle"]

Untracked == [op |-> "untracked"]

---------------------------------------------------------------------------
(* The metric vectors *)

\* What getLabels returns for an unsupported resource type (line 324)
NilLabels == "nil"

\* prometheus.Labels{} (lines 258, 270)
NoLabels == [l \in {} |-> ""]

\* A vector with no data point
EmptyVec == [l \in {} |-> 0]

Put(vec, labels, v) ==
    [l \in (DOMAIN vec) \cup {labels} |-> IF l = labels THEN v ELSE vec[l]]

\* The value a data point reads: a point that was never created reads as the
\* zero value it would be created with
Val(reg, name, labels) ==
    IF labels \in DOMAIN reg[name] THEN reg[name][labels] ELSE 0

\* Mutant: "initialize with 0" done as a reset of the data point
GetMetricWithReset(reg, name, labels) ==
    [reg EXCEPT ![name] = Put(@, labels, 0)]

\* vec.GetMetricWith(labels) / vec.With(labels): get the data point, creating
\* it with value 0 when the vector has none for these labels
GetMetricWith(reg, name, labels) ==
    IF labels \in DOMAIN reg[name]
    THEN reg
    ELSE [reg EXCEPT ![name] = Put(@, labels, 0)]

\* vec.With(labels).Set(v)
SetMetric(reg, name, labels, v) ==
    [reg EXCEPT ![name] = Put(@, labels, v)]

\* vec.With(labels).Inc() / .Dec(): one atomic add on the data point
AddMetric(reg, name, labels, d) ==
    [reg EXCEPT ![name] = Put(@, labels, Val(reg, name, labels) + d)]

IncMetric(reg, name, labels) == AddMetric(reg, name, labels, 1)

DecMetric(reg, name, labels) == AddMetric(reg, name, labels, -1)

---------------------------------------------------------------------------
(* strconv.Itoa (lines 319, 321) *)

DigitChars == <<"0", "1", "2", "3", "4", "5", "6", "7", "8", "9">>

RECURSIVE UintToString(_)
UintToString(n) ==
    IF n < 10 THEN DigitChars[n + 1]
    ELSE UintToString(n \div 10) \o DigitChars[(n % 10) + 1]

Itoa(i) == IF i < 0 THEN "-" \o UintToString(-i) ELSE UintToString(i)

---------------------------------------------------------------------------
(* Label sets *)

\* Mutant: the scaler and metric label values exchanged
getLabelsSwapped(namespace, scaledResource, scaler, scalerIndex, metric, resourceType) ==
    CASE resourceType = ScaledObjectResource ->
           [namespace |-> namespace, scaledObject |-> scaledResource,
            scaler |-> metric, scalerIndex |-> Itoa(scalerIndex), metric |-> scaler]
      [] resourceType = ScaledJobResource ->
           [namespace |-> namespace, scaledJob |-> scaledResource,
            scaler |-> metric, scalerIndex |-> Itoa(scalerIndex), metric |-> scaler]
      [] OTHER -> NilLabels

getLabels(namespace, scaledResource, scaler, scalerIndex, metric, resourceType) ==
    CASE resourceType = ScaledObjectResource ->
           [namespace |-> namespace, scaledObject |-> scaledResource,
            scaler |-> scaler, scalerIndex |-> Itoa(scalerIndex), metric |-> metric]
      [] resourceType = ScaledJobResource ->
           [namespace |-> namespace, scaledJob |-> scaledResource,
            scaler |-> scaler, scalerIndex |-> Itoa(scalerIndex), metric |-> metric]
      [] OTHER -> NilLabels

\* The labels built at lines 285 and 297
scaledObjectLabels(namespace, scaledResource) ==
    [namespace |-> namespace, scaledObject |-> scaledResource]

scaledJobLabels(namespace, scaledResource) ==
    [namespace |-> namespace, scaledJob |-> scaledResource]

\* WithLabelValues binds the values to the vector's label names in order
internalLoopLabels(namespace, resourceType, name) ==
    [namespace |-> namespace, type |-> resourceType, resource |-> name]

triggerLabels(triggerType) == [type |-> triggerType]

crdLabels(crdType, namespace) == [type |-> crdType, namespace |-> namespace]

buildInfoLabels ==
    [version |-> "version.Version", git_commit |-> "version.GitCommit",
     goversion |-> "runtime.Version", goos |-> "runtime.GOOS",
     goarch |-> "runtime.GOARCH"]


---------------------------------------------------------------------------
(* The effect of each exported function on the registry *)

\* Which vector a resource type routes to (the switch statements)
ScalerMetricsValueVec(resourceType) ==
    IF resourceType = ScaledObjectResource
    THEN scaledObjectScalerMetricsValue ELSE scaledJobScalerMetricsValue

ScalerMetricsLatencyVec(resourceType) ==
    IF resourceType = ScaledObjectResource
    THEN scaledObjectScalerMetricsLatency ELSE scaledJobScalerMetricsLatency

ScalerActiveVec(resourceType) ==
    IF resourceType = ScaledObjectResource
    THEN scaledObjectScalerActive ELSE scaledJobScalerActive

ScalerErrorsVec(resourceType) ==
    IF resourceType = ScaledObjectResource
    THEN scaledObjectScalerErrors ELSE scaledJobScalerErrors

ObjectErrorsVec(resourceType) ==
    IF resourceType = ScaledObjectResource
    THEN scaledObjectErrors ELSE scaledJobErrors

ObjectErrorsLabels(namespace, scaledResource, resourceType) ==
    IF resourceType = ScaledObjectResource
    THEN scaledObjectLabels(namespace, scaledResource)
    ELSE scaledJobLabels(namespace, scaledResource)

\* Mutant: the second case of the switch written as a default
RecordScalerMetricRegElseJob(reg, namespace, scaledResource, scaler, scalerIndex, metric, value, resourceType) ==
    IF resourceType = ScaledObjectResource
    THEN SetMetric(reg, scaledObjectScalerMetricsValue,
                   getLabels(namespace, scaledResource, scaler, scalerIndex, metric, resourceType), value)
    ELSE SetMetric(reg, scaledJobScalerMetricsValue,
                   getLabels(namespace, scaledResource, scaler, scalerIndex, metric, ScaledJobResource), value)

RecordScalerMetricReg(reg, namespace, scaledResource, scaler, scalerIndex, metric, value, resourceType) ==
    LET labels == getLabels(namespace, scaledResource, scaler, scalerIndex, metric, resourceType)
    IN  CASE resourceType = ScaledObjectResource ->
               SetMetric(reg, scaledObjectScalerMetricsValue, labels, value)
          [] resourceType = ScaledJobResource ->
               SetMetric(reg, scaledJobScalerMetricsValue, labels, value)
          [] OTHER -> reg

RecordScalerLatencyReg(reg, namespace, scaledResource, scaler, scalerIndex, metric, value, resourceType) ==
    LET labels == getLabels(namespace, scaledResource, scaler, scalerIndex, metric, resourceType)
    IN  CASE resourceType = ScaledObjectResource ->
               SetMetric(reg, scaledObjectScalerMetricsLatency, labels, value)
          [] resourceType = ScaledJobResource ->
               SetMetric(reg, scaledJobScalerMetricsLatency, labels, value)
          [] OTHER -> reg

RecordScalableObjectLatencyReg(reg, namespace, name, isScaledObject, value) ==
    LET resourceType == IF isScaledObject THEN "scaledobject" ELSE "scaledjob"
    IN  SetMetric(reg, internalLoopLatency,
                  internalLoopLabels(namespace, resourceType, name), value)

\* Mutant: the two values exchanged
ActiveValInverted(active) == IF active THEN 0 ELSE 1

\* activeVal of RecordScalerActive (lines 237-240)
ActiveVal(active) == IF active THEN 1 ELSE 0

RecordScalerActiveReg(reg, namespace, scaledResource, scaler, scalerIndex, metric, active, resourceType) ==
    LET activeVal == ActiveVal(active)
        labels == getLabels(namespace, scaledResource, scaler, scalerIndex, metric, resourceType)
    IN  CASE resourceType = ScaledObjectResource ->
               SetMetric(reg, scaledObjectScalerActive, labels, activeVal)
          [] resourceType = ScaledJobResource ->
               SetMetric(reg, scaledJobScalerActive, labels, activeVal)
          [] OTHER -> reg

\* Mutant: the counter is incremented whether or not err is nil
RecordScaledObjectErrorRegNoNilCheck(reg, namespace, scaledResource, err, resourceType) ==
    CASE resourceType = ScaledObjectResource ->
           IncMetric(reg, scaledObjectErrors, scaledObjectLabels(namespace, scaledResource))
      [] resourceType = ScaledJobResource ->
           IncMetric(reg, scaledJobErrors, scaledJobLabels(namespace, scaledResource))
      [] OTHER -> reg

RecordScaledObjectErrorReg(reg, namespace, scaledResource, err, resourceType) ==
    CASE resourceType = ScaledObjectResource ->
           LET labels == scaledObjectLabels(namespace, scaledResource)
           IN  IF err # NilErr
               THEN IncMetric(reg, scaledObjectErrors, labels)
               ELSE GetMetricWith(reg, scaledObjectErrors, labels)
      [] resourceType = ScaledJobResource ->
           LET labels == scaledJobLabels(namespace, scaledResource)
           IN  IF err # NilErr
               THEN IncMetric(reg, scaledJobErrors, labels)
               ELSE GetMetricWith(reg, scaledJobErrors, labels)
      [] OTHER -> reg

\* Mutant: the ScaledJob branch increments the ScaledObject counter
ScalerErrorsIncObjectOnly(reg, labels, resourceType) ==
    IncMetric(reg, scaledObjectScalerErrors, labels)

\* Lines 256 / 268: the per-scaler error counter
ScalerErrorsInc(reg, labels, resourceType) ==
    IF resourceType = ScaledObjectResource
    THEN IncMetric(reg, scaledObjectScalerErrors, labels)
    ELSE IncMetric(reg, scaledJobScalerErrors, labels)

\* Mutant: the global counter is not incremented
ScalerErrorsTotalSkip(reg) == reg

\* Lines 258 / 270: the global counter
ScalerErrorsTotalInc(reg) == IncMetric(reg, scalerErrorsTotal, NoLabels)

RecordScalerErrorReg(reg, namespace, scaledResource, scaler, scalerIndex, metric, err, resourceType) ==
    LET labels == getLabels(namespace, scaledResource, scaler, scalerIndex, metric, resourceType)
    IN  CASE resourceType = ScaledObjectResource ->
               IF err # NilErr
               THEN ScalerErrorsTotalInc(
                      RecordScaledObjectErrorReg(
                        ScalerErrorsInc(reg, labels, resourceType),
                        namespace, scaledResource, err, resourceType))
               ELSE GetMetricWith(reg, scaledObjectScalerErrors, labels)
          [] resourceType = ScaledJobResource ->
               IF err # NilErr
               THEN ScalerErrorsTotalInc(
                      RecordScaledObjectErrorReg(
                        ScalerErrorsInc(reg, labels, resourceType),
                        namespace, scaledResource, err, resourceType))
               ELSE GetMetricWith(reg, scaledJobScalerErrors, labels)
          [] OTHER -> reg

RecordBuildInfoReg(reg) == SetMetric(reg, buildInfo, buildInfoLabels, 1)

\* Mutant: no check of the trigger type
IncrementTriggerTotalRegUnguarded(reg, triggerType) ==
    IncMetric(reg, triggerTotalsGaugeVec, triggerLabels(triggerType))

IncrementTriggerTotalReg(reg, triggerType) ==
    IF triggerType # ""
    THEN IncMetric(reg, triggerTotalsGaugeVec, triggerLabels(triggerType))
    ELSE reg

DecrementTriggerTotalReg(reg, triggerType) ==
    IF triggerType # ""
    THEN DecMetric(reg, triggerTotalsGaugeVec, triggerLabels(triggerType))
    ELSE reg

\* Mutant: the namespace is used as given
KeepNamespace(namespace) == namespace

\* Lines 340-342 and 348-350
NormalizeNamespace(namespace) == IF namespace = "" THEN "default" ELSE namespace

IncrementCRDTotalReg(reg, crdType, namespace) ==
    IncMetric(reg, crdTotalsGaugeVec, crdLabels(crdType, NormalizeNamespace(namespace)))

DecrementCRDTotalReg(reg, crdType, namespace) ==
    DecMetric(reg, crdTotalsGaugeVec, crdLabels(crdType, NormalizeNamespace(namespace)))

---------------------------------------------------------------------------
(* History bookkeeping *)

Count(f, k) == IF k \in DOMAIN f THEN f[k] ELSE 0

Bump(f, k) == Put(f, k, Count(f, k) + 1)

WrittenTo(f, k) == IF k \in DOMAIN f THEN f[k] ELSE {}

AddWritten(f, k, v) == Put(f, k, WrittenTo(f, k) \cup {v})

AllIdle == \A w \in Workers : pc[w] = Idle

AllBusy == \A w \in Workers : pc[w] # Idle

\* A call is made by a worker that is not inside another call
Called(call) ==
    /\ ~ AllBusy
    /\ callsLeft > 0
    /\ callsLeft' = callsLeft - 1
    /\ last' = IF last = Untracked THEN last ELSE call
    /\ overlapped' = (overlapped \/ ~ AllIdle)

---------------------------------------------------------------------------
(* init() (lines 181-202): the vectors are registered empty, then          *)
(* RecordBuildInfo() runs                                                  *)

Init ==
    /\ registry = RecordBuildInfoReg([n \in VecNames |-> EmptyVec])
    /\ pc = [w \in Workers |-> Idle]
    /\ last = [op |-> "init"]
    /\ callsLeft = MaxCalls
    /\ scalerErrCalls = EmptyVec
    /\ objErrCalls = EmptyVec
    /\ written = AddWritten(EmptyVec, <<buildInfo, buildInfoLabels>>, 1)
    /\ overlapped = FALSE

---------------------------------------------------------------------------
(* The exported functions as atomic steps *)

RecordScalerMetric(namespace, scaledResource, scaler, scalerIndex, metric, value, resourceType) ==
    /\ Called([op |-> "RecordScalerMetric", namespace |-> namespace,
               scaledResource |-> scaledResource, scaler |-> scaler,
               scalerIndex |-> scalerIndex, metric |-> metric, value |-> value,
               resourceType |-> resourceType])
    /\ registry' = RecordScalerMetricReg(registry, namespace, scaledResource, scaler,
                                         scalerIndex, metric, value, resourceType)
    /\ written' = IF resourceType \in KnownResourceTypes
                  THEN AddWritten(written,
                         <<ScalerMetricsValueVec(resourceType),
                           getLabels(namespace, scaledResource, scaler, scalerIndex, metric, resourceType)>>,
                         value)
                  ELSE written
    /\ UNCHANGED <<pc, scalerErrCalls, objErrCalls>>

RecordScalerLatency(namespace, scaledResource, scaler, scalerIndex, metric, value, resourceType) ==
    /\ Called([op |-> "RecordScalerLatency", namespace |-> namespace,
               scaledResource |-> scaledResource, scaler |-> scaler,
               scalerIndex |-> scalerIndex, metric |-> metric, value |-> value,
               resourceType |-> resourceType])
    /\ registry' = RecordScalerLatencyReg(registry, namespace, scaledResource, scaler,
                                          scalerIndex, metric, value, resourceType)
    /\ written' = IF resourceType \in KnownResourceTypes
                  THEN AddWritten(written,
                         <<ScalerMetricsLatencyVec(resourceType),
                           getLabels(namespace, scaledResource, scaler, scalerIndex, metric, resourceType)>>,
                         value)
                  ELSE written
    /\ UNCHANGED <<pc, scalerErrCalls, objErrCalls>>

RecordScalableObjectLatency(namespace, name, isScaledObject, value) ==
    /\ Called([op |-> "RecordScalableObjectLatency", namespace |-> namespace,
               name |-> name, isScaledObject |-> isScaledObject, value |-> value])
    /\ registry' = RecordScalableObjectLatencyReg(registry, namespace, name, isScaledObject, value)
    /\ written' = AddWritten(written,
                     <<internalLoopLatency,
                       internalLoopLabels(namespace,
                          IF isScaledObject THEN "scaledobject" ELSE "scaledjob", name)>>,
                     value)
    /\ UNCHANGED <<pc, scalerErrCalls, objErrCalls>>

RecordScalerActive(namespace, scaledResource, scaler, scalerIndex, metric, active, resourceType) ==
    /\ Called([op |-> "RecordScalerActive", namespace |-> namespace,
               scaledResource |-> scaledResource, scaler |-> scaler,
               scalerIndex |-> scalerIndex, metric |-> metric, active |-> active,
               resourceType |-> resourceType])
    /\ registry' = RecordScalerActiveReg(registry, namespace, scaledResource, scaler,
                                         scalerIndex, metric, active, resourceType)
    /\ written' = IF resourceType \in KnownResourceTypes
                  THEN AddWritten(written,
                         <<ScalerActiveVec(resourceType),
                           getLabels(namespace, scaledResource, scaler, scalerIndex, metric, resourceType)>>,
                         ActiveVal(active))
                  ELSE written
    /\ UNCHANGED <<pc, scalerErrCalls, objErrCalls>>

RecordScalerError(namespace, scaledResource, scaler, scalerIndex, metric, err, resourceType) ==
    /\ Called([op |-> "RecordScalerError", namespace |-> namespace,
               scaledResource |-> scaledResource, scaler |-> scaler,
               scalerIndex |-> scalerIndex, metric |-> metric, err |-> err,
               resourceType |-> resourceType])
    /\ registry' = RecordScalerErrorReg(registry, namespace, scaledResource, scaler,
                                        scalerIndex, metric, err, resourceType)
    /\ scalerErrCalls' = IF resourceType \in KnownResourceTypes /\ err # NilErr
                         THEN Bump(scalerErrCalls,
                                <<ScalerErrorsVec(resourceType),
                                  getLabels(namespace, scaledResource, scaler, scalerIndex, metric, resourceType)>>)
                         ELSE scalerErrCalls
    /\ UNCHANGED <<pc, objErrCalls, written>>

RecordScaledObjectError(namespace, scaledResource, err, resourceType) ==
    /\ Called([op |-> "RecordScaledObjectError", namespace |-> namespace,
               scaledResource |-> scaledResource, err |-> err,
               resourceType |-> resourceType])
    /\ registry' = RecordScaledObjectErrorReg(registry, namespace, scaledResource, err, resourceType)
    /\ objErrCalls' = IF resourceType \in KnownResourceTypes /\ err # NilErr
                      THEN Bump(objErrCalls,
                             <<ObjectErrorsVec(resourceType),
                               ObjectErrorsLabels(namespace, scaledResource, resourceType)>>)
                      ELSE objErrCalls
    /\ UNCHANGED <<pc, scalerErrCalls, written>>

RecordBuildInfo ==
    /\ Called([op |-> "RecordBuildInfo"])
    /\ registry' = RecordBuildInfoReg(registry)
    /\ written' = AddWritten(written, <<buildInfo, buildInfoLabels>>, 1)
    /\ UNCHANGED <<pc, scalerErrCalls, objErrCalls>>

IncrementTriggerTotal(triggerType) ==
    /\ Called([op |-> "IncrementTriggerTotal", triggerType |-> triggerType])
    /\ registry' = IncrementTriggerTotalReg(registry, triggerType)
    /\ written' = IF triggerType # ""
                  THEN AddWritten(written, <<triggerTotalsGaugeVec, triggerLabels(triggerType)>>,
                                  registry'[triggerTotalsGaugeVec][triggerLabels(triggerType)])
                  ELSE written
    /\ UNCHANGED <<pc, scalerErrCalls, objErrCalls>>

DecrementTriggerTotal(triggerType) ==
    /\ Called([op |-> "DecrementTriggerTotal", triggerType |-> triggerType])
    /\ registry' = DecrementTriggerTotalReg(registry, triggerType)
    /\ written' = IF triggerType # ""
                  THEN AddWritten(written, <<triggerTotalsGaugeVec, triggerLabels(triggerType)>>,
                                  registry'[triggerTotalsGaugeVec][triggerLabels(triggerType)])
                  ELSE written
    /\ UNCHANGED <<pc, scalerErrCalls, objErrCalls>>

IncrementCRDTotal(crdType, namespace) ==
    /\ Called([op |-> "IncrementCRDTotal", crdType |-> crdType, namespace |-> namespace])
    /\ registry' = IncrementCRDTotalReg(registry, crdType, namespace)
    /\ written' = LET labels == crdLabels(crdType, NormalizeNamespace(namespace))
                  IN  AddWritten(written, <<crdTotalsGaugeVec, labels>>,
                                 registry'[crdTotalsGaugeVec][labels])
    /\ UNCHANGED <<pc, scalerErrCalls, objErrCalls>>

DecrementCRDTotal(crdType, namespace) ==
    /\ Called([op |-> "DecrementCRDTotal", crdType |-> crdType, namespace |-> namespace])
    /\ registry' = DecrementCRDTotalReg(registry, crdType, namespace)
    /\ written' = LET labels == crdLabels(crdType, NormalizeNamespace(namespace))
                  IN  AddWritten(written, <<crdTotalsGaugeVec, labels>>,
                                 registry'[crdTotalsGaugeVec][labels])
    /\ UNCHANGED <<pc, scalerErrCalls, objErrCalls>>

ScalerCall(resourceTypes) ==
    \E namespace \in Namespaces, scaledResource \in ResourceNames,
       scaler \in ScalerNames, scalerIndex \in ScalerIndexes,
       metric \in MetricNames, resourceType \in resourceTypes :
        \/ \E value \in Values :
              RecordScalerMetric(namespace, scaledResource, scaler, scalerIndex, metric, value, resourceType)
        \/ \E value \in Values :
              RecordScalerLatency(namespace, scaledResource, scaler, scalerIndex, metric, value, resourceType)
        \/ \E active \in BOOLEAN :
              RecordScalerActive(namespace, scaledResource, scaler, scalerIndex, metric, active, resourceType)

OtherCall(resourceTypes) ==
    \/ \E namespace \in Namespaces, scaledResource \in ResourceNames,
          err \in Errs, resourceType \in resourceTypes :
          RecordScaledObjectError(namespace, scaledResource, err, resourceType)
    \/ \E namespace \in Namespaces, name \in ResourceNames,
          isScaledObject \in BOOLEAN, value \in Values :
          RecordScalableObjectLatency(namespace, name, isScaledObject, value)
    \/ RecordBuildInfo
    \/ \E triggerType \in TriggerTypes : IncrementTriggerTotal(triggerType)
    \/ \E triggerType \in TriggerTypes : DecrementTriggerTotal(triggerType)
    \/ \E crdType \in CRDTypes, namespace \in CRDNamespaces : IncrementCRDTotal(crdType, namespace)
    \/ \E crdType \in CRDTypes, namespace \in CRDNamespaces : DecrementCRDTotal(crdType, namespace)

Next ==
    \/ ScalerCall(ResourceTypes)
    \/ OtherCall(ResourceTypes)
    \/ \E namespace \in Namespaces, scaledResource \in ResourceNames,
          scaler \in ScalerNames, scalerIndex \in ScalerIndexes,
          metric \in MetricNames, err \in Errs, resourceType \in ResourceTypes :
          RecordScalerError(namespace, scaledResource, scaler, scalerIndex, metric, err, resourceType)

Spec == Init /\ [][Next]_vars

---------------------------------------------------------------------------
(* Concurrent callers.  Every function but a failing RecordScalerError      *)
(* makes at most one registry operation, which the registry performs        *)
(* atomically; a failing RecordScalerError makes three, one per statement.  *)

\* Entry of RecordScalerError up to and including line 256 / 268 (err # nil),
\* or the whole call (err = nil, or an unsupported resource type)
RecordScalerErrorBegin(w, namespace, scaledResource, scaler, scalerIndex, metric, err, resourceType) ==
    LET labels == getLabels(namespace, scaledResource, scaler, scalerIndex, metric, resourceType)
        failing == resourceType \in KnownResourceTypes /\ err # NilErr
    IN  /\ pc[w] = Idle
        /\ callsLeft > 0
        /\ callsLeft' = callsLeft - 1
        /\ registry' = IF failing
                       THEN ScalerErrorsInc(registry, labels, resourceType)
                       ELSE RecordScalerErrorReg(registry, namespace, scaledResource, scaler,
                                                 scalerIndex, metric, err, resourceType)
        /\ pc' = IF failing
                 THEN [pc EXCEPT ![w] = [at |-> "RecordScaledObjectError",
                                         namespace |-> namespace,
                                         scaledResource |-> scaledResource,
                                         err |-> err, resourceType |-> resourceType]]
                 ELSE pc
        /\ scalerErrCalls' = IF failing
                             THEN Bump(scalerErrCalls, <<ScalerErrorsVec(resourceType), labels>>)
                             ELSE scalerErrCalls
        /\ overlapped' = (overlapped \/ ~ AllIdle)
        /\ UNCHANGED <<last, objErrCalls, written>>

\* Mutant: a read-modify-write that is not atomic, so that of two callers at
\* this statement together one increment is lost
RecordScalerErrorCallObjectRacy(w) ==
    /\ pc[w].at = "RecordScaledObjectError"
    /\ registry' = IF \E v \in Workers \ {w} : pc[v] = pc[w]
                   THEN registry
                   ELSE RecordScaledObjectErrorReg(registry, pc[w].namespace,
                           pc[w].scaledResource, pc[w].err, pc[w].resourceType)
    /\ pc' = [pc EXCEPT ![w] = [at |-> "scalerErrorsTotal"]]
    /\ UNCHANGED <<last, callsLeft, scalerErrCalls, objErrCalls, written, overlapped>>

\* Line 257 / 269: RecordScaledObjectError(namespace, scaledResource, err, resourceType)
RecordScalerErrorCallObject(w) ==
    /\ pc[w].at = "RecordScaledObjectError"
    /\ registry' = RecordScaledObjectErrorReg(registry, pc[w].namespace,
                        pc[w].scaledResource, pc[w].err, pc[w].resourceType)
    /\ pc' = [pc EXCEPT ![w] = [at |-> "scalerErrorsTotal"]]
    /\ UNCHANGED <<last, callsLeft, scalerErrCalls, objErrCalls, written, overlapped>>

\* Line 258 / 270: scalerErrorsTotal.With(prometheus.Labels{}).Inc(), then break
RecordScalerErrorTotal(w) ==
    /\ pc[w].at = "scalerErrorsTotal"
    /\ registry' = ScalerErrorsTotalInc(registry)
    /\ pc' = [pc EXCEPT ![w] = Idle]
    /\ UNCHANGED <<last, callsLeft, scalerErrCalls, objErrCalls, written, overlapped>>

\* A call with an unsupported resource type performs no registry operation
\* (every switch falls through), so the concurrent callers pass the two
\* supported ones
ConcNext ==
    \/ ScalerCall(KnownResourceTypes)
    \/ OtherCall(KnownResourceTypes)
    \/ \E w \in Workers, namespace \in Namespaces, scaledResource \in ResourceNames,
          scaler \in ScalerNames, scalerIndex \in ScalerIndexes,
          metric \in MetricNames, err \in Errs, resourceType \in KnownResourceTypes :
          RecordScalerErrorBegin(w, namespace, scaledResource, scaler, scalerIndex,
                                 metric, err, resourceType)
    \/ \E w \in Workers : RecordScalerErrorCallObject(w)
    \/ \E w \in Workers : RecordScalerErrorTotal(w)

ConcInit ==
    /\ registry = RecordBuildInfoReg([n \in VecNames |-> EmptyVec])
    /\ pc = [w \in Workers |-> Idle]
    /\ last = Untracked
    /\ callsLeft = MaxConcCalls
    /\ scalerErrCalls = EmptyVec
    /\ objErrCalls = EmptyVec
    /\ written = AddWritten(EmptyVec, <<buildInfo, buildInfoLabels>>, 1)
    /\ overlapped = FALSE

ConcSpec == ConcInit /\ [][ConcNext]_vars

---------------------------------------------------------------------------
(* Properties *)

RECURSIVE SumOf(_, _)
SumOf(f, S) ==
    IF S = {} THEN 0
    ELSE LET k == CHOOSE x \in S : TRUE IN f[k] + SumOf(f, S \ {k})

\* The resource a label set names (label scaledObject or scaledJob)
ResourceOf(labels) ==
    IF "scaledObject" \in DOMAIN labels THEN labels.scaledObject ELSE labels.scaledJob

\* The resource-level label sets of the inputs, written out per resource type
ObjectLabelSets(resourceType) ==
    IF resourceType = ScaledObjectResource
    THEN {[namespace |-> ns, scaledObject |-> res] : ns \in Namespaces, res \in ResourceNames}
    ELSE {[namespace |-> ns, scaledJob |-> res] : ns \in Namespaces, res \in ResourceNames}

\* The failing RecordScalerError calls made so far that name the resource `ol`
ScalerErrCallKeys(resourceType, ol) ==
    {k \in DOMAIN scalerErrCalls :
        /\ k[1] = ScalerErrorsVec(resourceType)
        /\ k[2].namespace = ol.namespace
        /\ ResourceOf(k[2]) = ResourceOf(ol)}

KnownTypeOf(call) == call.resourceType \in KnownResourceTypes

\* Every error counter reads the number of failing calls made for it
ErrorCountersMatchCalls ==
    /\ \A resourceType \in KnownResourceTypes :
          LET vec == ScalerErrorsVec(resourceType)
          IN  /\ \A l \in DOMAIN registry[vec] :
                    registry[vec][l] = Count(scalerErrCalls, <<vec, l>>)
              /\ \A k \in DOMAIN scalerErrCalls :
                    k[1] = vec => Val(registry, vec, k[2]) = scalerErrCalls[k]
              /\ \A ol \in ObjectLabelSets(resourceType) :
                    Val(registry, ObjectErrorsVec(resourceType), ol)
                      = SumOf(scalerErrCalls, ScalerErrCallKeys(resourceType, ol))
                        + Count(objErrCalls, <<ObjectErrorsVec(resourceType), ol>>)
    /\ Val(registry, scalerErrorsTotal, NoLabels)
          = SumOf(scalerErrCalls, DOMAIN scalerErrCalls)

\* C1: k failing RecordScalerError calls for a label tuple raise the per-scaler
\* error counter of that kind at that tuple by exactly k, the resource-level
\* error counter at (namespace, resourceName) by exactly k, and the global
\* scaler-errors-total counter by exactly k.  Stated over the history of the
\* calls: every per-scaler counter reads the number of failing calls made for
\* its tuple, every resource-level counter the number of failing calls made for
\* its resource (plus the direct failing RecordScaledObjectError calls), and
\* the global counter the number of all failing RecordScalerError calls.
C1_ErrorCallsCounted == ErrorCountersMatchCalls

\* C1 witness: RecordScalerError has failed MaxCalls times for one ScaledJob
\* tuple, and the three counters read MaxCalls
C1_Witness ==
    LET l == [namespace |-> "ns1", scaledJob |-> "obj1", scaler |-> "scaler-a",
              scalerIndex |-> "12", metric |-> "queueLength"]
    IN  /\ Count(scalerErrCalls, <<scaledJobScalerErrors, l>>) = MaxCalls
        /\ Val(registry, scaledJobScalerErrors, l) = MaxCalls
        /\ Val(registry, scaledJobErrors, [namespace |-> "ns1", scaledJob |-> "obj1"]) = MaxCalls
        /\ Val(registry, scalerErrorsTotal, NoLabels) = MaxCalls

\* The decimal text of the scaler indexes of the inputs
IndexText(scalerIndex) == IF scalerIndex = 0 THEN "0" ELSE "12"

\* The data point a RecordScalerError / RecordScaledObjectError call addresses
ErrorVecOf(call) ==
    IF call.op = "RecordScalerError"
    THEN ScalerErrorsVec(call.resourceType)
    ELSE ObjectErrorsVec(call.resourceType)

ErrorLabelsOf(call) ==
    LET res == call.scaledResource
    IN  IF call.op = "RecordScalerError"
        THEN IF call.resourceType = ScaledObjectResource
             THEN [namespace |-> call.namespace, scaledObject |-> res, scaler |-> call.scaler,
                   scalerIndex |-> IndexText(call.scalerIndex), metric |-> call.metric]
             ELSE [namespace |-> call.namespace, scaledJob |-> res, scaler |-> call.scaler,
                   scalerIndex |-> IndexText(call.scalerIndex), metric |-> call.metric]
        ELSE IF call.resourceType = ScaledObjectResource
             THEN [namespace |-> call.namespace, scaledObject |-> res]
             ELSE [namespace |-> call.namespace, scaledJob |-> res]

IsNilErrorCall(call) ==
    /\ call.op \in {"RecordScalerError", "RecordScaledObjectError"}
    /\ call.err = NilErr
    /\ KnownTypeOf(call)

\* No data point of any vector changes value or disappears
ValuesKept ==
    \A n \in VecNames : \A l \in DOMAIN registry[n] :
        l \in DOMAIN registry'[n] /\ registry'[n][l] = registry[n][l]

\* C2: RecordScalerError or RecordScaledObjectError with a nil error and a
\* known resourceKind increments nothing: the addressed error-counter data
\* point is created with value 0 when it does not exist, and its value is
\* left unchanged when it exists; no other data point is created or changed.
C2_NilErrorOnlyInitializes ==
    [][IsNilErrorCall(last') =>
         LET vec == ErrorVecOf(last')
             l == ErrorLabelsOf(last')
         IN  /\ ValuesKept
             /\ l \in DOMAIN registry'[vec]
             /\ l \notin DOMAIN registry[vec] => registry'[vec][l] = 0
             /\ \A n \in VecNames : \A x \in DOMAIN registry'[n] :
                   x \in DOMAIN registry[n] \/ (n = vec /\ x = l)
      ]_vars

\* C2 witness: RecordScalerError was just called with a nil error for a tuple
\* whose counter already reads a non-zero count
C2_Witness ==
    /\ IsNilErrorCall(last)
    /\ last.op = "RecordScalerError"
    /\ Val(registry, ErrorVecOf(last), ErrorLabelsOf(last)) > 0

RoutingOps ==
    {"RecordScalerMetric", "RecordScalerLatency", "RecordScalerActive",
     "RecordScalerError", "RecordScaledObjectError"}

\* C3: with a resourceKind other than ScaledObjectResource and
\* ScaledJobResource, each of RecordScalerMetric, RecordScalerLatency,
\* RecordScalerActive, RecordScalerError and RecordScaledObjectError leaves
\* every series unchanged: no value changes, no data point is created, the
\* global scaler-errors-total counter is not incremented.
C3_UnknownKindNoOp ==
    [][(last'.op \in RoutingOps /\ ~ KnownTypeOf(last')) => registry' = registry]_vars

\* C3 witness: RecordScalerError was just called with a non-nil error and an
\* unsupported resource type, in a state whose error counters are not zero
C3_Witness ==
    /\ last.op = "RecordScalerError"
    /\ ~ KnownTypeOf(last)
    /\ last.err # NilErr
    /\ Val(registry, scalerErrorsTotal, NoLabels) > 0

\* The label tuple {namespace, scaledObject|scaledJob = resourceName, scaler,
\* scalerIndex, metric} of a per-scaler call
ScalerLabelsOf(call) ==
    IF call.resourceType = ScaledObjectResource
    THEN [namespace |-> call.namespace, scaledObject |-> call.scaledResource,
          scaler |-> call.scaler, scalerIndex |-> IndexText(call.scalerIndex),
          metric |-> call.metric]
    ELSE [namespace |-> call.namespace, scaledJob |-> call.scaledResource,
          scaler |-> call.scaler, scalerIndex |-> IndexText(call.scalerIndex),
          metric |-> call.metric]

ActiveVecOf(call) ==
    IF call.resourceType = ScaledObjectResource
    THEN scaledObjectScalerActive ELSE scaledJobScalerActive

\* C4: for a known resourceKind, RecordScalerActive with active=true sets the
\* activity gauge of that kind at the resolved label tuple to exactly 1, with
\* active=false to exactly 0, whatever the prior value; every activity gauge
\* data point holds 0 or 1.
C4_ActiveIsZeroOrOne ==
    /\ (last.op = "RecordScalerActive" /\ KnownTypeOf(last)) =>
          /\ ScalerLabelsOf(last) \in DOMAIN registry[ActiveVecOf(last)]
          /\ registry[ActiveVecOf(last)][ScalerLabelsOf(last)]
                = (IF last.active THEN 1 ELSE 0)
    /\ \A n \in {scaledObjectScalerActive, scaledJobScalerActive} :
          \A l \in DOMAIN registry[n] : registry[n][l] \in {0, 1}

\* C4 witness: RecordScalerActive(active=false) was just called for a gauge that
\* had been set to 1 before, and the gauge reads 0
C4_Witness ==
    /\ last.op = "RecordScalerActive"
    /\ KnownTypeOf(last)
    /\ ~ last.active
    /\ WrittenTo(written, <<ActiveVecOf(last), ScalerLabelsOf(last)>>) = {0, 1}
    /\ registry[ActiveVecOf(last)][ScalerLabelsOf(last)] = 0

\* C5: IncrementTriggerTotal and DecrementTriggerTotal with an empty
\* triggerType are no-ops: no trigger-totals data point changes value and
\* none is created; with a non-empty triggerType they change only the data
\* point of that type, by +1 and -1 respectively.
C5_TriggerTotals ==
    [][last'.op \in {"IncrementTriggerTotal", "DecrementTriggerTotal"} =>
         IF last'.triggerType = ""
         THEN registry' = registry
         ELSE LET l == [type |-> last'.triggerType]
                  d == IF last'.op = "IncrementTriggerTotal" THEN 1 ELSE -1
              IN  /\ l \in DOMAIN registry'[triggerTotalsGaugeVec]
                  /\ registry'[triggerTotalsGaugeVec][l]
                        = Val(registry, triggerTotalsGaugeVec, l) + d
                  /\ \A x \in DOMAIN registry'[triggerTotalsGaugeVec] :
                        x # l => /\ x \in DOMAIN registry[triggerTotalsGaugeVec]
                                 /\ registry'[triggerTotalsGaugeVec][x]
                                       = registry[triggerTotalsGaugeVec][x]
                  /\ \A n \in VecNames \ {triggerTotalsGaugeVec} : registry'[n] = registry[n]
      ]_vars

\* C5 witness: DecrementTriggerTotal("") was just called while the trigger
\* totals read 1 for one type and -1 for another
C5_Witness ==
    /\ last.op = "DecrementTriggerTotal"
    /\ last.triggerType = ""
    /\ Val(registry, triggerTotalsGaugeVec, [type |-> "kafka"]) = 1
    /\ Val(registry, triggerTotalsGaugeVec, [type |-> "cron"]) = -1

\* C6: IncrementCRDTotal(crdType, "") yields the same metric state as
\* IncrementCRDTotal(crdType, "default"), likewise DecrementCRDTotal; no data
\* point labeled with an empty namespace exists in the resource-totals series.
C6_EmptyNamespaceIsDefault ==
    /\ \A crdType \in CRDTypes :
          /\ IncrementCRDTotalReg(registry, crdType, "")
                = IncrementCRDTotalReg(registry, crdType, "default")
          /\ DecrementCRDTotalReg(registry, crdType, "")
                = DecrementCRDTotalReg(registry, crdType, "default")
    /\ \A l \in DOMAIN registry[crdTotalsGaugeVec] : l.namespace # ""

\* C6 witness: IncrementCRDTotal was just called with an empty namespace and
\* the data point of namespace "default" reads 2
C6_Witness ==
    /\ last.op = "IncrementCRDTotal"
    /\ last.namespace = ""
    /\ [type |-> last.crdType, namespace |-> "default"] \in DOMAIN registry[crdTotalsGaugeVec]
    /\ registry[crdTotalsGaugeVec][[type |-> last.crdType, namespace |-> "default"]] = 2

\* C7: every counter series (global scaler-errors-total, per-scaler error
\* counters of both kinds, resource-level error counters of both kinds) is
\* monotonically non-decreasing: no call lowers a counter data point, and an
\* existing data point is never removed.
C7_CountersMonotonic ==
    [][\A n \in CounterVecs : \A l \in DOMAIN registry[n] :
          /\ l \in DOMAIN registry'[n]
          /\ registry'[n][l] >= registry[n][l]
      ]_vars

\* C7 witness: a nil-error call has just been made for a resource whose
\* resource-level counter reads 2
C7_Witness ==
    /\ last.op = "RecordScaledObjectError"
    /\ KnownTypeOf(last)
    /\ last.err = NilErr
    /\ Val(registry, ErrorVecOf(last), ErrorLabelsOf(last)) = 2

GaugeVecOf(call) ==
    IF call.op = "RecordScalerMetric"
    THEN (IF call.resourceType = ScaledObjectResource
          THEN scaledObjectScalerMetricsValue ELSE scaledJobScalerMetricsValue)
    ELSE (IF call.resourceType = ScaledObjectResource
          THEN scaledObjectScalerMetricsLatency ELSE scaledJobScalerMetricsLatency)

SpecExampleCall ==
    [op |-> "RecordScalerMetric", namespace |-> "ns1", scaledResource |-> "obj1",
     scaler |-> "scaler-a", scalerIndex |-> 0, metric |-> "queueLength",
     value |-> 42, resourceType |-> ScaledObjectResource]

SpecExampleLabels ==
    [namespace |-> "ns1", scaledObject |-> "obj1", scaler |-> "scaler-a",
     scalerIndex |-> "0", metric |-> "queueLength"]

\* C8: for a known resourceKind, RecordScalerMetric (resp. RecordScalerLatency)
\* sets the metrics-value (resp. latency) gauge of that kind at the label tuple
\* {namespace, scaledObject|scaledJob=resourceName, scaler, scalerIndex,
\* metric} to the given value, and leaves unchanged every other label tuple of
\* that series, the series of the other resource kind and all other series;
\* after RecordScalerMetric(ns1, obj1, scaler-a, 0, queueLength, 42,
\* ScaledObjectResource) the ScaledObject series reads 42 at that tuple and the
\* ScaledJob series has no data point for it.
C8_GaugeSetAndFrame ==
    [][/\ (last'.op \in {"RecordScalerMetric", "RecordScalerLatency"} /\ KnownTypeOf(last')) =>
            LET vec == GaugeVecOf(last')
                l == ScalerLabelsOf(last')
            IN  /\ l \in DOMAIN registry'[vec]
                /\ registry'[vec][l] = last'.value
                /\ \A x \in DOMAIN registry'[vec] :
                      x # l => x \in DOMAIN registry[vec] /\ registry'[vec][x] = registry[vec][x]
                /\ \A x \in DOMAIN registry[vec] : x \in DOMAIN registry'[vec]
                /\ \A n \in VecNames \ {vec} : registry'[n] = registry[n]
       /\ last' = SpecExampleCall =>
            /\ registry'[scaledObjectScalerMetricsValue][SpecExampleLabels] = 42
            /\ SpecExampleLabels \notin DOMAIN registry'[scaledJobScalerMetricsValue]
      ]_vars

\* C8 witness: the call of the example was just made for a data point that
\* read 7 before, while the series holds another label tuple that reads 7
C8_Witness ==
    /\ last = SpecExampleCall
    /\ WrittenTo(written, <<scaledObjectScalerMetricsValue, SpecExampleLabels>>) = {7, 42}
    /\ registry[scaledObjectScalerMetricsValue][SpecExampleLabels] = 42
    /\ \E x \in DOMAIN registry[scaledObjectScalerMetricsValue] :
          x # SpecExampleLabels /\ registry[scaledObjectScalerMetricsValue][x] = 7

\* Every gauge data point holds a value that one of the calls made for it wrote
GaugesHoldWrittenValue ==
    \A n \in VecNames \ CounterVecs : \A l \in DOMAIN registry[n] :
        registry[n][l] \in WrittenTo(written, <<n, l>>)

\* C9: when several workers call the functions concurrently, each registry
\* increment or set being atomic per data point and a failing RecordScalerError
\* being three separate increments, no update is lost under any interleaving:
\* once all calls have returned, each error counter equals its initial value
\* (zero) plus the number of non-nil-error calls that target it, and each gauge
\* holds the value written by one of the calls that targeted it.
C9_NoLostUpdate ==
    AllIdle => (ErrorCountersMatchCalls /\ GaugesHoldWrittenValue)

\* C9 witness: exactly two calls were made, they overlapped, both were failing
\* RecordScalerError calls for the same tuple, both have returned, and the
\* three counters read 2
C9_Witness ==
    /\ AllIdle
    /\ overlapped
    /\ callsLeft = MaxConcCalls - 2
    /\ Count(scalerErrCalls, <<scaledObjectScalerErrors, SpecExampleLabels>>) = 2
    /\ Val(registry, scaledObjectScalerErrors, SpecExampleLabels) = 2
    /\ Val(registry, scaledObjectErrors, [namespace |-> "ns1", scaledObject |-> "obj1"]) = 2
    /\ Val(registry, scalerErrorsTotal, NoLabels) = 2

\* The per-scaler error data points of a kind that name the resource `ol`
ScalerPointsOf(resourceType, ol) ==
    {l \in DOMAIN registry[ScalerErrorsVec(resourceType)] :
        l.namespace = ol.namespace /\ ResourceOf(l) = ResourceOf(ol)}

\* C10: in every state reachable from the fresh state in which no call is in
\* progress, the global scaler-errors-total counter equals the sum of all
\* per-scaler error counter data points over both resource kinds, and for each
\* (kind, namespace, resourceName) the resource-level error counter is greater
\* than or equal to the sum of the per-scaler error counters of that kind with
\* that namespace and resourceName, strictly greater only when
\* RecordScaledObjectError was called directly with a non-nil error.
C10_TotalsAreSums ==
    AllIdle =>
      /\ Val(registry, scalerErrorsTotal, NoLabels)
            = SumOf(registry[scaledObjectScalerErrors], DOMAIN registry[scaledObjectScalerErrors])
              + SumOf(registry[scaledJobScalerErrors], DOMAIN registry[scaledJobScalerErrors])
      /\ \A resourceType \in KnownResourceTypes :
            LET objVec == ObjectErrorsVec(resourceType)
            IN  \A ol \in ObjectLabelSets(resourceType) \cup DOMAIN registry[objVec] :
                   LET sum == SumOf(registry[ScalerErrorsVec(resourceType)],
                                    ScalerPointsOf(resourceType, ol))
                   IN  /\ Val(registry, objVec, ol) >= sum
                       /\ Val(registry, objVec, ol) > sum
                             => Count(objErrCalls, <<objVec, ol>>) > 0

\* C10 witness: no call is in progress, two scalers of one ScaledObject each
\* count one error, and the resource-level counter reads 3 after a direct
\* failing RecordScaledObjectError call
C10_Witness ==
    /\ AllIdle
    /\ Val(registry, scaledObjectScalerErrors, SpecExampleLabels) = 1
    /\ Val(registry, scaledObjectScalerErrors,
           [SpecExampleLabels EXCEPT !.scalerIndex = "12"]) = 1
    /\ Val(registry, scaledObjectErrors, [namespace |-> "ns1", scaledObject |-> "obj1"]) = 3
    /\ Val(registry, scalerErrorsTotal, NoLabels) = 2

=============================================================================
